---------------------------- MODULE Spec2Model ----------------------------
(***************************************************************************)
(* VecBench: short-vector complex arithmetic kernels (generic, std::complex *)
(* and AVX+FMA intrinsics), the 3x3 matrix multiply built from them, and    *)
(* the timing harness that main() drives.                                   *)
(*                                                                          *)
(* Arithmetic is exact integer arithmetic: the kernels are polynomial in    *)
(* their inputs, and the properties below are about which products and sums *)
(* each kernel forms, not about floating-point rounding.                    *)
(***************************************************************************)
EXTENDS Integers, Sequences, FiniteSets, TLC

VARIABLES
  pc,      \* main(): where the program is
  cur,     \* main(): index in MainCalls of the call being executed
  it,      \* BENCHMARK: outer loop counter
  i,       \* BENCHMARK: inner loop counter
  out,     \* lines written to cout, in order
  ran,     \* per benchmark: how many times expr has been executed
  work,    \* per benchmark: [mul, mac, flops] done by its kernel calls
  status,  \* main(): its return value, once it has returned
  a, b, c,          \* static vecf buffers
  ac, bc, cc,       \* static vecfc buffers
  aavx, bavx, cavx, \* static __m256 buffers
  inp,     \* kernel harness: the buffer contents drawn at start
  last     \* kernel harness: the expression that was applied

srcVars  == <<b, c, bc, cc, bavx, cavx>>
vars     == <<pc, cur, it, i, out, ran, work, status, a, b, c, ac, bc, cc,
              aavx, bavx, cavx, inp, last>>

---------------------------------------------------------------------------
(* Bounds of the model *)

\* input components are drawn from -MaxVal..MaxVal
MaxVal == 1

\* scaled-down benchmark parameters (the program uses 10000 and 5000)
nElem == 2
nIt == 2

\* timesMinusI1 is applied up to MaxApply times in a row
MaxApply == 4

\* loop0<n> and loop1<n> are unrolled for n up to MaxUnroll
MaxUnroll == 4

---------------------------------------------------------------------------
(* Program constants *)

GEN_SIMD_DCOMPLEX_WIDTH == 2
nRow == 3
nCoef == nRow * nRow

\* W<float>::c and W<float>::r
WfC == 2 * GEN_SIMD_DCOMPLEX_WIDTH
WfR == 2 * WfC

Lanes == 0 .. (WfC - 1)
Comps == 0 .. (WfR - 1)
BufIdx == 0 .. (nElem * nCoef - 1)

---------------------------------------------------------------------------
(* Vector types and their memory layout *)

\* vec<float>: T v[W<T>::r], value-initialised (static storage)
ZeroVec == [k \in Comps |-> 0]

\* vecc<float>: std::complex<T> v[W<T>::c]; std::complex() is (0, 0)
ZeroVecc == [k \in Lanes |-> [re |-> 0, im |-> 0]]

\* a local `vec<T> out;` before any component has been assigned
Unassigned == [k \in {} |-> 0]

\* the same 32 bytes read as vecc: complex k is (v[2k], v[2k+1])
ToStd(x) == [k \in Lanes |-> [re |-> x[2 * k], im |-> x[2 * k + 1]]]

\* the same 32 bytes read as __m256: float k is v[k]
ToAvx(x) == [k \in 0 .. 7 |-> x[k]]

---------------------------------------------------------------------------
(* genvec.hpp: generic kernels.  The in-place forms take references, so    *)
(* they are modelled on a store of named objects: every read sees the      *)
(* writes made before it.                                                  *)

\* the element of a singleton set.  Intermediate values below are bound as
\* the element of a singleton ({f(t) : t \in {e}}) so that each is computed
\* once, where a LET would recompute it at every use.
The(S) == CHOOSE r \in S : TRUE

\* st[d].v[k] = v
Assign(st, d, k, v) == [st EXCEPT ![d] = (k :> v) @@ st[d]]

\* cmul with the real part's difference written as a sum
cmulSignSlip(st, d, s1, s2, k) ==
  The({ Assign(t1, d, k + 1,
               t1[s1][k] * t1[s2][k + 1] + t1[s1][k + 1] * t1[s2][k]) :
        t1 \in { Assign(t0, d, k,
                        t0[s1][k] * t0[s2][k] + t0[s1][k + 1] * t0[s2][k + 1]) :
                 t0 \in {st} } })

\* #define cmul(a, b, c, i): two assignments, in order
cmul(st, d, s1, s2, k) ==
  The({ Assign(t1, d, k + 1,
               t1[s1][k] * t1[s2][k + 1] + t1[s1][k + 1] * t1[s2][k]) :
        t1 \in { Assign(t0, d, k,
                        t0[s1][k] * t0[s2][k] - t0[s1][k + 1] * t0[s2][k + 1]) :
                 t0 \in {st} } })

\* cmac with = for += in the real part
cmacOverwrites(st, d, s1, s2, k) ==
  The({ Assign(t1, d, k + 1,
               t1[d][k + 1] + (t1[s1][k] * t1[s2][k + 1]
                               + t1[s1][k + 1] * t1[s2][k])) :
        t1 \in { Assign(t0, d, k,
                        t0[s1][k] * t0[s2][k] - t0[s1][k + 1] * t0[s2][k + 1]) :
                 t0 \in {st} } })

\* #define cmac(a, b, c, i): two compound assignments, in order
cmac(st, d, s1, s2, k) ==
  The({ Assign(t1, d, k + 1,
               t1[d][k + 1] + (t1[s1][k] * t1[s2][k + 1]
                               + t1[s1][k + 1] * t1[s2][k])) :
        t1 \in { Assign(t0, d, k,
                        t0[d][k] + (t0[s1][k] * t0[s2][k]
                                    - t0[s1][k + 1] * t0[s2][k + 1])) :
                 t0 \in {st} } })

\* VECTOR_FOR(i, W<T>::c, 1) { cmul(d.v, s1.v, s2.v, 2*i); }
RECURSIVE mulgenLoop(_, _, _, _, _)
mulgenLoop(st, d, s1, s2, k) ==
  IF k < WfC THEN mulgenLoop(cmul(st, d, s1, s2, 2 * k), d, s1, s2, k + 1)
  ELSE st

\* VECTOR_FOR(i, W<T>::c, 1) { cmac(d.v, s1.v, s2.v, 2*i); }
RECURSIVE macgenLoop(_, _, _, _, _)
macgenLoop(st, d, s1, s2, k) ==
  IF k < WfC THEN macgenLoop(cmac(st, d, s1, s2, 2 * k), d, s1, s2, k + 1)
  ELSE st

\* the in-place mulgen with its loop started at lane 1
mulgenRefSkipsLane(st, d, s1, s2) == mulgenLoop(st, d, s1, s2, 1)

\* void mulgen(vec<T> &a, const vec<T> &b, const vec<T> &c) on objects of st
mulgenRef(st, d, s1, s2) == mulgenLoop(st, d, s1, s2, 0)

\* void macgen(vec<T> &a, const vec<T> &b, const vec<T> &c) on objects of st
macgenRef(st, d, s1, s2) == macgenLoop(st, d, s1, s2, 0)

\* vec<T> mulgen(const vec<T> &a, const vec<T> &b): local out, returned
mulgen2(x, y) ==
  mulgenLoop([o |-> Unassigned, x |-> x, y |-> y], "o", "x", "y", 0).o

\* the in-place forms called with three separate objects
mulgen3(x, y, z) == mulgenRef([x |-> x, y |-> y, z |-> z], "x", "y", "z").x

macgen(x, y, z) == macgenRef([x |-> x, y |-> y, z |-> z], "x", "y", "z").x

\* vec<T> add(const vec<T> &a, const vec<T> &b)
add(x, y) == [k \in Comps |-> x[k] + y[k]]

\* vec<T> mi(void): every complex lane is (0, -1)
mi == [k \in Comps |-> IF k % 2 = 0 THEN 0 ELSE 0 - 1]

\* tmi with the sign of the imaginary part dropped
tmiNoNegate(st, s, d, k) ==
  The({ Assign(t1, d, k + 1, t1[s][k]) :
        t1 \in { Assign(t0, d, k, t0[s][k + 1]) : t0 \in {st} } })

\* #define tmi(a, c, i): c[i] = a[i+1]; c[i+1] = -a[i];
tmi(st, s, d, k) ==
  The({ Assign(t1, d, k + 1, 0 - t1[s][k]) :
        t1 \in { Assign(t0, d, k, t0[s][k + 1]) : t0 \in {st} } })

\* VECTOR_FOR(i, W<T>::c, 1) { tmi(a.v, out.v, 2*i); }
RECURSIVE timesMinusI1Loop(_, _, _, _)
timesMinusI1Loop(st, s, d, k) ==
  IF k < WfC THEN timesMinusI1Loop(tmi(st, s, d, 2 * k), s, d, k + 1)
  ELSE st

\* vec<T> timesMinusI1(const vec<T> &a): local out, returned
timesMinusI1(x) ==
  timesMinusI1Loop([o |-> Unassigned, x |-> x], "x", "o", 0).o

\* static const vecf mif = mi<float>(); micst<float>::val = &mif
mif == mi

\* vec<T> timesMinusI2(const vec<T> &a): mulgen(a, *micst<T>::val)
timesMinusI2(x) == mulgen2(x, mif)

\* floating-point operations written in cmul: 4 products, 1 difference, 1 sum
cmulFlops == 4 + 1 + 1

\* cmac: those of cmul and the two +=
cmacFlops == cmulFlops + 2

\* one cmul / cmac per complex lane
mulgenFlops == WfC * cmulFlops

macgenFlops == WfC * cmacFlops

---------------------------------------------------------------------------
(* genvec.hpp: std::complex kernels *)

\* std::complex operator* on finite values
cplxMul(x, y) == [re |-> x.re * y.re - x.im * y.im,
                  im |-> x.re * y.im + x.im * y.re]

\* std::complex operator+=
cplxAdd(x, y) == [re |-> x.re + y.re, im |-> x.im + y.im]

\* the mulstd loop with operator* taking the conjugate product
RECURSIVE mulstdLoopConj(_, _, _, _)
mulstdLoopConj(x, y, z, k) ==
  IF k < WfC
  THEN The({ mulstdLoopConj(
                 [x0 EXCEPT ![k] = [re |-> y[k].re * z[k].re + y[k].im * z[k].im,
                                    im |-> y[k].im * z[k].re - y[k].re * z[k].im]],
                 y, z, k + 1) : x0 \in {x} })
  ELSE x

\* VECTOR_FOR(i, W<T>::c, 1) { x.v[i] = y.v[i]*z.v[i]; }
RECURSIVE mulstdLoop(_, _, _, _)
mulstdLoop(x, y, z, k) ==
  IF k < WfC
  THEN The({ mulstdLoop([x0 EXCEPT ![k] = cplxMul(y[k], z[k])], y, z, k + 1) :
             x0 \in {x} })
  ELSE x

\* VECTOR_FOR(i, W<T>::c, 1) { x.v[i] += y.v[i]*z.v[i]; }
RECURSIVE macstdLoop(_, _, _, _)
macstdLoop(x, y, z, k) ==
  IF k < WfC
  THEN The({ macstdLoop([x0 EXCEPT ![k] = cplxAdd(x0[k], cplxMul(y[k], z[k]))],
                        y, z, k + 1) : x0 \in {x} })
  ELSE x

\* vecc<T> mulstd(const vecc<T> &a, const vecc<T> &b): local c, returned
mulstd2(x, y) == mulstdLoop(ZeroVecc, x, y, 0)

\* void mulstd(vecc<T> &a, const vecc<T> &b, const vecc<T> &c)
mulstd3(x, y, z) == mulstdLoop(x, y, z, 0)

\* void macstd(vecc<T> &a, const vecc<T> &b, const vecc<T> &c)
macstd(x, y, z) == macstdLoop(x, y, z, 0)

\* operator* is 4 products, 1 difference, 1 sum; operator+= is 2 sums
mulstdFlops == WfC * (4 + 1 + 1)

macstdFlops == WfC * (4 + 1 + 1 + 2)

---------------------------------------------------------------------------
(* avxvec.hpp: AVX+FMA kernels on __m256 (8 floats, two 128-bit halves) *)

\* SELECT with its fields packed in the opposite order
SELECTReversed(A, B, C, D) == D * 64 + C * 16 + B * 4 + A

\* #define SELECT(A,B,C,D) ((A<<6)|(B<<4)|(C<<2)|(D)), fields below 4
SELECT(A, B, C, D) == A * 64 + B * 16 + C * 4 + D

\* bits [2n+1 : 2n] of an 8-bit immediate
Imm2(imm, n) == (imm \div (4 ^ n)) % 4

\* _mm256_moveldup_ps: duplicate the even-indexed elements
moveldup(x) == [k \in 0 .. 7 |-> x[k - (k % 2)]]

\* _mm256_movehdup_ps: duplicate the odd-indexed elements
movehdup(x) == [k \in 0 .. 7 |-> x[k - (k % 2) + 1]]

\* _mm256_shuffle_ps: in each 128-bit half, elements 0, 1 are selected from
\* x and elements 2, 3 from y, by the four 2-bit fields of imm
shuffle(x, y, imm) ==
  [k \in 0 .. 7 |->
     LET h == 4 * (k \div 4)
         n == k % 4
     IN  IF n < 2 THEN x[h + Imm2(imm, n)] ELSE y[h + Imm2(imm, n)]]

\* _mm256_mul_ps
mul_ps(x, y) == [k \in 0 .. 7 |-> x[k] * y[k]]

\* _mm256_add_ps
add_ps(x, y) == [k \in 0 .. 7 |-> x[k] + y[k]]

\* _mm256_fmaddsub_ps: x*y - z in even elements, x*y + z in odd elements
fmaddsub(x, y, z) ==
  [k \in 0 .. 7 |-> IF k % 2 = 0 THEN x[k] * y[k] - z[k]
                                 ELSE x[k] * y[k] + z[k]]

\* __m256 muladdf(const __m256 &a, const __m256 &b)
muladdf(x, y) == add_ps(x, y)

\* __m256 mulavxf(const __m256 &a, const __m256 &b)
mulavxf2(x, y) ==
  LET a_real == moveldup(x)
      a_imag == mul_ps(movehdup(x), shuffle(y, y, SELECT(2, 3, 0, 1)))
  IN  fmaddsub(a_real, y, a_imag)

\* void mulavxf(__m256 &a, const __m256 &b, const __m256 &c): a = mulavxf(b, c)
mulavxf3(x, y, z) == mulavxf2(y, z)

\* void macavxf(__m256 &a, const __m256 &b, const __m256 &c)
macavxf(x, y, z) == muladdf(x, mulavxf2(y, z))

\* mul_ps is 8 products, fmaddsub_ps 8 products and 8 sums
mulavxfFlops == 8 + (8 + 8)

\* and add_ps is 8 sums
macavxfFlops == mulavxfFlops + 8


---------------------------------------------------------------------------
(* benchmark.cpp: loops, the matrix multiply macros, the benchmarks.  A    *)
(* loop is the sequence of index values its body runs with; an expression  *)
(* is the sequence of kernel calls it makes, run in order on the buffers.  *)

RECURSIVE Concat(_)
Concat(ss) == IF ss = <<>> THEN <<>> ELSE Head(ss) \o Concat(Tail(ss))

\* for (unsigned int k = lo; k < hi; ++k)
ForRange(lo, hi) == [n \in 1 .. (IF hi > lo THEN hi - lo ELSE 0) |-> lo + n - 1]

\* loop0<n>::exec(func): loop0<n-1>::exec(func); func(n - 1); loop0<0> is empty
RECURSIVE loop0(_)
loop0(n) == IF n = 0 THEN <<>> ELSE Append(loop0(n - 1), n - 1)

\* loop1<n>::exec(func): loop0<n-1>::exec(func); func(n - 1); loop1<1> is empty
loop1(n) == IF n = 1 THEN <<>> ELSE Append(loop0(n - 1), n - 1)

\* one kernel call: op on destination a[d] with sources b[x], c[y]
Call(op, d, x, y) == [op |-> op, d |-> d, x |-> x, y |-> y]

\* MATMUL with the mac phase reading c[os + s*nRow + t]
MATMULCallsTransposed(os) ==
  LET rs == ForRange(0, nRow)
      ts == ForRange(1, nRow)
      ss == ForRange(0, nRow)
  IN  Concat([p \in DOMAIN rs |-> Concat([q \in DOMAIN ss |->
        << Call("mul3", os + rs[p] * nRow + ss[q], os + rs[p] * nRow,
                os + ss[q]) >> ])])
      \o
      Concat([p \in DOMAIN rs |-> Concat([u \in DOMAIN ts |->
        Concat([q \in DOMAIN ss |->
          << Call("mac", os + rs[p] * nRow + ss[q], os + rs[p] * nRow + ts[u],
                  os + ss[q] * nRow + ts[u]) >> ])])])

\* MATMUL with the t loop of the mac phase started at 0
MATMULCallsFromZero(os) ==
  LET rs == ForRange(0, nRow)
      ts == ForRange(0, nRow)
      ss == ForRange(0, nRow)
  IN  Concat([p \in DOMAIN rs |-> Concat([q \in DOMAIN ss |->
        << Call("mul3", os + rs[p] * nRow + ss[q], os + rs[p] * nRow,
                os + ss[q]) >> ])])
      \o
      Concat([p \in DOMAIN rs |-> Concat([u \in DOMAIN ts |->
        Concat([q \in DOMAIN ss |->
          << Call("mac", os + rs[p] * nRow + ss[q], os + rs[p] * nRow + ts[u],
                  os + ts[u] * nRow + ss[q]) >> ])])])

\* MATMUL with the element offset os left out of the destination index
MATMULCallsNoOffset(os) ==
  LET rs == ForRange(0, nRow)
      ts == ForRange(1, nRow)
      ss == ForRange(0, nRow)
  IN  Concat([p \in DOMAIN rs |-> Concat([q \in DOMAIN ss |->
        << Call("mul3", rs[p] * nRow + ss[q], os + rs[p] * nRow,
                os + ss[q]) >> ])])
      \o
      Concat([p \in DOMAIN rs |-> Concat([u \in DOMAIN ts |->
        Concat([q \in DOMAIN ss |->
          << Call("mac", rs[p] * nRow + ss[q], os + rs[p] * nRow + ts[u],
                  os + ts[u] * nRow + ss[q]) >> ])])])

\* #define MATMUL(a, b, c, mul, mac, os): the r, s loop of mul calls, then
\* the r, t, s loop of mac calls
MATMULCalls(os) ==
  LET rs == ForRange(0, nRow)
      ts == ForRange(1, nRow)
      ss == ForRange(0, nRow)
  IN  Concat([p \in DOMAIN rs |-> Concat([q \in DOMAIN ss |->
        << Call("mul3", os + rs[p] * nRow + ss[q], os + rs[p] * nRow,
                os + ss[q]) >> ])])
      \o
      Concat([p \in DOMAIN rs |-> Concat([u \in DOMAIN ts |->
        Concat([q \in DOMAIN ss |->
          << Call("mac", os + rs[p] * nRow + ss[q], os + rs[p] * nRow + ts[u],
                  os + ts[u] * nRow + ss[q]) >> ])])])

\* #define MATMULUNROLL(a, b, c, mul, mac, os): the same loops, unrolled by
\* loop0<nRow> (r, s) and loop1<nRow> (t)
MATMULUNROLLCalls(os) ==
  LET rs == loop0(nRow)
      ts == loop1(nRow)
      ss == loop0(nRow)
  IN  Concat([p \in DOMAIN rs |-> Concat([q \in DOMAIN ss |->
        << Call("mul2", os + rs[p] * nRow + ss[q], os + rs[p] * nRow,
                os + ss[q]) >> ])])
      \o
      Concat([p \in DOMAIN rs |-> Concat([u \in DOMAIN ts |->
        Concat([q \in DOMAIN ss |->
          << Call("mac", os + rs[p] * nRow + ss[q], os + rs[p] * nRow + ts[u],
                  os + ts[u] * nRow + ss[q]) >> ])])])

\* the kernels of a family: generic, std, AVX
Kernel(fam, op, x, y, z) ==
  CASE fam = "gen" /\ op = "mul2" -> mulgen2(y, z)
    [] fam = "gen" /\ op = "mul3" -> mulgen3(x, y, z)
    [] fam = "gen" /\ op = "mac"  -> macgen(x, y, z)
    [] fam = "gen" /\ op = "add"  -> add(y, z)
    [] fam = "std" /\ op = "mul2" -> mulstd2(y, z)
    [] fam = "std" /\ op = "mul3" -> mulstd3(x, y, z)
    [] fam = "std" /\ op = "mac"  -> macstd(x, y, z)
    [] fam = "avx" /\ op = "mul2" -> mulavxf2(y, z)
    [] fam = "avx" /\ op = "mul3" -> mulavxf3(x, y, z)
    [] fam = "avx" /\ op = "mac"  -> macavxf(x, y, z)

\* floating-point operations one call of the kernel performs
KernelFlops(fam, op) ==
  CASE fam = "gen" /\ op \in {"mul2", "mul3"} -> mulgenFlops
    [] fam = "gen" /\ op = "mac"  -> macgenFlops
    [] fam = "gen" /\ op = "add"  -> WfR
    [] fam = "std" /\ op \in {"mul2", "mul3"} -> mulstdFlops
    [] fam = "std" /\ op = "mac"  -> macstdFlops
    [] fam = "avx" /\ op \in {"mul2", "mul3"} -> mulavxfFlops
    [] fam = "avx" /\ op = "mac"  -> macavxfFlops

\* the calls of an expression run in order, from call n on: A is the
\* destination buffer, B and C the source buffers (three separate arrays)
RECURSIVE RunCallsFrom(_, _, _, _, _, _)
RunCallsFrom(A, B, C, fam, calls, n) ==
  IF n > Len(calls) THEN A
  ELSE The({ RunCallsFrom(
               [A0 EXCEPT ![calls[n].d] =
                  Kernel(fam, calls[n].op, A0[calls[n].d], B[calls[n].x],
                         C[calls[n].y])],
               B, C, fam, calls, n + 1) : A0 \in {A} })

RunCalls(A, B, C, fam, calls) == RunCallsFrom(A, B, C, fam, calls, 1)

\* floating-point operations of the calls of an expression
RECURSIVE CallFlopsFrom(_, _, _)
CallFlopsFrom(fam, calls, n) ==
  IF n > Len(calls) THEN 0
  ELSE KernelFlops(fam, calls[n].op) + CallFlopsFrom(fam, calls, n + 1)

CallFlops(fam, calls) == CallFlopsFrom(fam, calls, 1)

\* what the calls of an expression add up to
CallWork(fam, calls) ==
  [mul   |-> Cardinality({k \in DOMAIN calls : calls[k].op \in {"mul2", "mul3"}}),
   mac   |-> Cardinality({k \in DOMAIN calls : calls[k].op = "mac"}),
   flops |-> CallFlops(fam, calls)]

\* DECL_BENCHMARK(name)
BenchNames == {"addgen", "mulgen2", "mulgen3", "mulstd2", "mulstd3",
               "mulavx2", "mulavx3", "macgen", "macstd", "macavx",
               "matmulgen", "matmulstd", "matmulavx",
               "matmulunrollgen", "matmulunrollavx"}

\* the buffers a BENCHMARK's expr works on
BenchFam(name) ==
  CASE name \in {"addgen", "mulgen2", "mulgen3", "macgen", "matmulgen",
                 "matmulunrollgen"} -> "gen"
    [] name \in {"mulstd2", "mulstd3", "macstd", "matmulstd"} -> "std"
    [] name \in {"mulavx2", "mulavx3", "macavx", "matmulavx",
                 "matmulunrollavx"} -> "avx"

\* BENCHMARK(name, expr, ...): the calls of expr in inner iteration n
BenchCalls(name, n) ==
  CASE name = "addgen"  -> << Call("add", n, n, n) >>
    [] name = "mulgen2" -> << Call("mul2", n, n, n) >>
    [] name = "mulgen3" -> << Call("mul3", n, n, n) >>
    [] name = "mulstd2" -> << Call("mul2", n, n, n) >>
    [] name = "mulstd3" -> << Call("mul3", n, n, n) >>
    [] name = "mulavx2" -> << Call("mul2", n, n, n) >>
    [] name = "mulavx3" -> << Call("mul2", n, n, n) >>
    [] name = "macgen"  -> << Call("mac", n, n, n) >>
    [] name = "macstd"  -> << Call("mac", n, n, n) >>
    [] name = "macavx"  -> << Call("mac", n, n, n) >>
    [] name \in {"matmulgen", "matmulstd", "matmulavx"}
         -> MATMULCalls(n * nCoef)
    [] name \in {"matmulunrollgen", "matmulunrollavx"}
         -> MATMULUNROLLCalls(n * nCoef)

\* BENCHMARK(name, expr, flops, ...): the flops argument
BenchFlops(name) ==
  CASE name = "addgen" -> WfR
    [] name \in {"mulgen2", "mulgen3", "mulstd2", "mulstd3",
                 "mulavx2", "mulavx3"} -> 6 * WfC
    [] name \in {"macgen", "macstd", "macavx"} -> 8 * WfC
    [] name \in {"matmulgen", "matmulstd", "matmulavx",
                 "matmulunrollgen", "matmulunrollavx"}
         -> nRow * nRow * 6 * WfC + nRow * nRow * (nRow - 1) * 8 * WfC

\* BENCHMARK(name, expr, flops, title): the title argument
BenchTitle(name) ==
  CASE name = "addgen"  -> "generic a[i] = b[i] + c[i]"
    [] name = "mulgen2" -> "generic a[i] = b[i]*c[i] (2 args)"
    [] name = "mulgen3" -> "generic a[i] = b[i]*c[i] (3 args)"
    [] name = "mulstd2" -> "std a[i] = b[i]*c[i] (2 args)"
    [] name = "mulstd3" -> "std a[i] = b[i]*c[i] (3 args)"
    [] name = "mulavx2" -> "AVX a[i] = b[i]*c[i] (2 args)"
    [] name = "mulavx3" -> "AVX a[i] = b[i]*c[i] (3 args)"
    [] name = "macgen"  -> "generic a[i] += b[i]*c[i]"
    [] name = "macstd"  -> "std a[i] += b[i]*c[i]"
    [] name = "macavx"  -> "AVX a[i] += b[i]*c[i]"
    [] name = "matmulgen" -> "generic A[i] = B[i]*C[i]"
    [] name = "matmulstd" -> "std A[i] = B[i]*C[i]"
    [] name = "matmulavx" -> "AVX A[i] = B[i]*C[i]"
    [] name = "matmulunrollgen" -> "generic A[i] = B[i]*C[i] (unrolled)"
    [] name = "matmulunrollavx" -> "AVX A[i] = B[i]*C[i] (unrolled)"

\* main() with bench_macgen called before bench_mulgen3
MainCallsSwapped == << "info", "mulgen2", "macgen", "mulgen3", "matmulgen",
                       "mulstd2", "mulstd3", "macstd", "matmulstd",
                       "mulavx2", "mulavx3", "macavx", "matmulavx" >>

\* main(): the calls it makes, in order
MainCalls == << "info", "mulgen2", "mulgen3", "macgen", "matmulgen",
                "mulstd2", "mulstd3", "macstd", "matmulstd",
                "mulavx2", "mulavx3", "macavx", "matmulavx" >>

EXIT_SUCCESS == 0

---------------------------------------------------------------------------
(* The program: static buffers, main(), bench_info(), BENCHMARK functions *)

\* static vecf / vecfc / __m256 arrays of nElem*nCoef elements: zero-initialised
ZeroBuf == [j \in BufIdx |-> ZeroVec]

ZeroBufc == [j \in BufIdx |-> ZeroVecc]

ZeroBufv == [j \in BufIdx |-> ToAvx(ZeroVec)]

\* the benchmark main() is in
CurBench == MainCalls[cur]

\* expr of BENCHMARK(name, ...) with inner index n: the destination buffer of
\* the benchmark's family is rewritten by the calls, nothing else is written
Expr(name, n) ==
  \E fam \in {BenchFam(name)}, calls \in {BenchCalls(name, n)} :
  \E w \in {CallWork(fam, calls)} :
      /\ a'    = IF fam = "gen" THEN RunCalls(a, b, c, fam, calls) ELSE a
      /\ ac'   = IF fam = "std" THEN RunCalls(ac, bc, cc, fam, calls) ELSE ac
      /\ aavx' = IF fam = "avx" THEN RunCalls(aavx, bavx, cavx, fam, calls)
                 ELSE aavx
      /\ UNCHANGED srcVars
      /\ ran'  = [ran EXCEPT ![name] = @ + 1]
      /\ work' = [work EXCEPT ![name] = [mul   |-> @.mul + w.mul,
                                         mac   |-> @.mac + w.mac,
                                         flops |-> @.flops + w.flops]]

Init ==
  /\ pc = "main" /\ cur = 1 /\ it = 0 /\ i = 0
  /\ out = <<>>
  /\ status = <<>>
  /\ ran = [n \in BenchNames |-> 0]
  /\ work = [n \in BenchNames |-> [mul |-> 0, mac |-> 0, flops |-> 0]]
  /\ a = ZeroBuf /\ b = ZeroBuf /\ c = ZeroBuf
  /\ ac = ZeroBufc /\ bc = ZeroBufc /\ cc = ZeroBufc
  /\ aavx = ZeroBufv /\ bavx = ZeroBufv /\ cavx = ZeroBufv
  /\ inp = <<>>
  /\ last = [name |-> "none", n |-> 0]

\* main: bench_info();  (the banner, with the array size it prints in bytes)
BenchInfo ==
  /\ pc = "main" /\ cur <= Len(MainCalls) /\ CurBench = "info"
  /\ out' = Append(out, [kind |-> "info", bench |-> "info",
                         text |-> nElem * nCoef * 4 * WfR])
  /\ cur' = cur + 1
  /\ UNCHANGED <<pc, it, i, ran, work, status, a, ac, aavx, srcVars, inp, last>>

\* main: bench_<name>();  cout << "# " << title; start = now()
BenchTitleLine ==
  /\ pc = "main" /\ cur <= Len(MainCalls) /\ CurBench # "info"
  /\ out' = Append(out, [kind |-> "title", bench |-> CurBench,
                         text |-> BenchTitle(CurBench)])
  /\ it' = 0
  /\ pc' = "outer"
  /\ UNCHANGED <<cur, i, ran, work, status, a, ac, aavx, srcVars, inp, last>>

\* for (unsigned int it = 0; it < nIt; ++it): the test
OuterTest ==
  /\ pc = "outer"
  /\ IF it < nIt THEN i' = 0 /\ pc' = "inner"
                 ELSE i' = i /\ pc' = "report"
  /\ UNCHANGED <<cur, it, out, ran, work, status, a, ac, aavx, srcVars,
                 inp, last>>

\* the inner loop with <= for < in its test
InnerTestOffByOne ==
  /\ pc = "inner"
  /\ IF i <= nElem THEN it' = it /\ pc' = "body"
                   ELSE it' = it + 1 /\ pc' = "outer"
  /\ UNCHANGED <<cur, i, out, ran, work, status, a, ac, aavx, srcVars,
                 inp, last>>

\* for (unsigned int i = 0; i < nElem; ++i): the test; ++it when it fails
InnerTest ==
  /\ pc = "inner"
  /\ IF i < nElem THEN it' = it /\ pc' = "body"
                  ELSE it' = it + 1 /\ pc' = "outer"
  /\ UNCHANGED <<cur, i, out, ran, work, status, a, ac, aavx, srcVars,
                 inp, last>>

\* expr; ++i
Body ==
  /\ pc = "body"
  /\ Expr(CurBench, i)
  /\ i' = i + 1
  /\ pc' = "inner"
  /\ UNCHANGED <<cur, it, out, status, inp, last>>

\* end = now(); the duration / Gflop/s line, whose numerator is
\* (flops)*nIt*nElem; return to main
Report ==
  /\ pc = "report"
  /\ out' = Append(out, [kind |-> "result", bench |-> CurBench,
                         text |-> BenchFlops(CurBench) * nIt * nElem])
  /\ cur' = cur + 1
  /\ pc' = "main"
  /\ UNCHANGED <<it, i, ran, work, status, a, ac, aavx, srcVars, inp, last>>

\* return EXIT_SUCCESS;
MainReturn ==
  /\ pc = "main" /\ cur > Len(MainCalls)
  /\ status' = << EXIT_SUCCESS >>
  /\ pc' = "exit"
  /\ UNCHANGED <<cur, it, i, out, ran, work, a, ac, aavx, srcVars, inp, last>>

Next ==
  \/ BenchInfo
  \/ BenchTitleLine
  \/ OuterTest
  \/ InnerTest
  \/ Body
  \/ Report
  \/ MainReturn

Spec == Init /\ [][Next]_vars

\* one thread that runs until main returns: a step that can be taken is taken
FairSpec == Spec /\ WF_vars(Next)

---------------------------------------------------------------------------
(* Kernel harness: the buffers hold drawn data and one benchmark           *)
(* expression is applied once, at any element index.                       *)

Vals == (0 - MaxVal) .. MaxVal

\* a vector whose complex lane k is (x + k, y - k)
Ramp(x, y) == [k \in Comps |-> IF k % 2 = 0 THEN x + (k \div 2)
                                            ELSE y - (k \div 2)]

\* a buffer whose element j is Ramp(x + dx*j, y + dy*j)
Fill(x, y, dx, dy) == [j \in BufIdx |-> Ramp(x + dx * j, y + dy * j)]

\* the same memory read as a vecfc / __m256 array
BufToStd(A) == [j \in DOMAIN A |-> ToStd(A[j])]

BufToAvx(A) == [j \in DOMAIN A |-> ToAvx(A[j])]

InitKernel ==
  /\ pc = "ready" /\ cur = 0 /\ it = 0 /\ i = 0
  /\ out = <<>>
  /\ status = <<>>
  /\ ran = [n \in BenchNames |-> 0]
  /\ work = [n \in BenchNames |-> [mul |-> 0, mac |-> 0, flops |-> 0]]
  /\ \E p \in {0, 1}, bx \in Vals, by \in Vals, cx \in Vals, cy \in {0, 1} :
       inp = [a |-> IF p = 0 THEN ZeroBuf ELSE Fill(1, 0 - 1, 2, 1),
              b |-> Fill(bx, by, 1, 0 - 2),
              c |-> Fill(cx, cy, 0 - 1, 3)]
  /\ a = inp.a /\ b = inp.b /\ c = inp.c
  /\ ac = BufToStd(inp.a) /\ bc = BufToStd(inp.b) /\ cc = BufToStd(inp.c)
  /\ aavx = BufToAvx(inp.a) /\ bavx = BufToAvx(inp.b) /\ cavx = BufToAvx(inp.c)
  /\ last = [name |-> "none", n |-> 0]

\* expr of bench_<name> for inner index n
Apply(name, n) ==
  /\ pc = "ready"
  /\ Expr(name, n)
  /\ last' = [name |-> name, n |-> n]
  /\ pc' = "applied"
  /\ UNCHANGED <<cur, it, i, out, status, inp>>

NextKernel == \E name \in BenchNames, n \in 0 .. (nElem - 1) : Apply(name, n)

SpecKernel == InitKernel /\ [][NextKernel]_vars

\* a[n] = timesMinusI1(b[n]), then a[n] = timesMinusI1(a[n]) again and again;
\* it counts the applications
ApplyMinusI(n) ==
  /\ pc \in {"ready", "tmi"} /\ it < MaxApply
  /\ pc = "tmi" => last.n = n
  /\ a' = [a EXCEPT ![n] = timesMinusI1(IF pc = "ready" THEN b[n] ELSE a[n])]
  /\ it' = it + 1
  /\ last' = [name |-> "timesMinusI1", n |-> n]
  /\ pc' = "tmi"
  /\ UNCHANGED <<cur, i, out, ran, work, status, ac, aavx, srcVars, inp>>

NextMinusI == \E n \in 0 .. (nElem - 1) : ApplyMinusI(n)

SpecMinusI == InitKernel /\ [][NextMinusI]_vars

---------------------------------------------------------------------------
(* Properties of the kernels, checked under SpecKernel *)

\* the harness has applied the expression of one of these benchmarks
Applied(names) == pc = "applied" /\ last.name \in names

\* element offset of the matrix the applied expression worked on
LastOs == last.n * nCoef

\* x with every complex lane but lane k zeroed
OnlyLane(x, k) == [j \in Comps |-> IF j \div 2 = k THEN x[j] ELSE 0]

\* the lane-wise complex product, component by component
CProd(x, y) ==
  [j \in Comps |-> IF j % 2 = 0 THEN x[j] * y[j] - x[j + 1] * y[j + 1]
                                ELSE x[j - 1] * y[j] + x[j] * y[j - 1]]

VSum(x, y) == [j \in Comps |-> x[j] + y[j]]

\* sum over u in t..nRow-1 of B[os + r*nRow + u] * C[os + u*nRow + s]
RECURSIVE RowByCol(_, _, _, _, _, _)
RowByCol(B, C, os, r, s, t) ==
  IF t >= nRow THEN ZeroVec
  ELSE VSum(CProd(B[os + r * nRow + t], C[os + t * nRow + s]),
            RowByCol(B, C, os, r, s, t + 1))

\* C1: after a = mulgen(b, c) or mulgen(a, b, c) on separate objects, every
\* complex lane k of a holds the complex product of lane k of b and c:
\* a[2k] = b[2k]*c[2k] - b[2k+1]*c[2k+1], a[2k+1] = b[2k]*c[2k+1] + b[2k+1]*c[2k];
\* in particular (1,0)*(0,1) = (0,1); and lane k of the result is what the
\* kernel returns when every other lane of the inputs is zeroed.
C1_MulgenIsComplexProduct ==
  Applied({"mulgen2", "mulgen3"}) =>
    LET x == inp.b[last.n]
        y == inp.c[last.n]
        r == a[last.n]
    IN  /\ DOMAIN r = Comps
        /\ \A k \in Lanes :
             /\ r[2 * k] = x[2 * k] * y[2 * k] - x[2 * k + 1] * y[2 * k + 1]
             /\ r[2 * k + 1] = x[2 * k] * y[2 * k + 1] + x[2 * k + 1] * y[2 * k]
             /\ (x[2 * k] = 1 /\ x[2 * k + 1] = 0 /\ y[2 * k] = 0 /\ y[2 * k + 1] = 1)
                  => (r[2 * k] = 0 /\ r[2 * k + 1] = 1)
             /\ LET q == mulgen2(OnlyLane(x, k), OnlyLane(y, k))
                IN  q[2 * k] = r[2 * k] /\ q[2 * k + 1] = r[2 * k + 1]

\* C1 witness: mulgen(a, b, c) has run on lanes that include (1,0)*(0,1),
\* overwriting a different previous value with (0,1)
C1_Witness ==
  /\ Applied({"mulgen3"})
  /\ inp.b[last.n][0] = 1 /\ inp.b[last.n][1] = 0
  /\ inp.c[last.n][0] = 0 /\ inp.c[last.n][1] = 1
  /\ a[last.n][0] = 0 /\ a[last.n][1] = 1
  /\ inp.a[last.n][0] # 0
  /\ a[last.n][2] # 0

\* C2: macgen(a, b, c) leaves in every complex lane of a its previous value
\* plus the complex product of that lane of b and c
C2_MacgenAccumulates ==
  Applied({"macgen"}) =>
    LET x  == inp.b[last.n]
        y  == inp.c[last.n]
        a0 == inp.a[last.n]
        r  == a[last.n]
    IN  /\ DOMAIN r = Comps
        /\ \A k \in Lanes :
             /\ r[2 * k] = a0[2 * k]
                           + (x[2 * k] * y[2 * k] - x[2 * k + 1] * y[2 * k + 1])
             /\ r[2 * k + 1] = a0[2 * k + 1]
                               + (x[2 * k] * y[2 * k + 1] + x[2 * k + 1] * y[2 * k])

\* C2 witness: macgen has added a non-zero product to a non-zero a
C2_Witness ==
  /\ Applied({"macgen"})
  /\ inp.a[last.n] # ZeroVec
  /\ a[last.n][0] # inp.a[last.n][0]
  /\ a[last.n][1] # inp.a[last.n][1]
  /\ a[last.n][0] # CProd(inp.b[last.n], inp.c[last.n])[0]

\* C3: after MATMUL(a, b, c, mul, mac, os) with os = i*nCoef, for the generic,
\* std and AVX kernels alike, entry (r, s) of the destination block is the sum
\* over t of b[os + r*nRow + t] * c[os + t*nRow + s], whatever a held before
C3_MatmulIsMatrixProduct ==
  Applied({"matmulgen", "matmulstd", "matmulavx"}) =>
    \A r \in 0 .. (nRow - 1), s \in 0 .. (nRow - 1) :
      LET j == LastOs + r * nRow + s
          e == RowByCol(inp.b, inp.c, LastOs, r, s, 0)
      IN  CASE last.name = "matmulgen" -> a[j] = e
            [] last.name = "matmulstd" -> ac[j] = ToStd(e)
            [] last.name = "matmulavx" -> aavx[j] = ToAvx(e)

\* C3 witness: MATMUL has run at a non-zero offset on a non-zero destination
\* and changed it
C3_Witness ==
  /\ Applied({"matmulgen"})
  /\ LastOs > 0
  /\ inp.a[LastOs + nRow + 1] # ZeroVec
  /\ a[LastOs + nRow + 1] # inp.a[LastOs + nRow + 1]
  /\ a[LastOs + nRow + 1] # ZeroVec

\* C4: MATMULUNROLL leaves in a[os .. os+nCoef-1] the values MATMUL leaves
C4_UnrollEqualsMatmul ==
  Applied({"matmulunrollgen", "matmulunrollavx"}) =>
    \A j \in LastOs .. (LastOs + nCoef - 1) :
      IF last.name = "matmulunrollgen"
      THEN a[j] = RunCalls(inp.a, inp.b, inp.c, "gen", MATMULCalls(LastOs))[j]
      ELSE aavx[j] = RunCalls(BufToAvx(inp.a), BufToAvx(inp.b), BufToAvx(inp.c),
                              "avx", MATMULCalls(LastOs))[j]

\* C5: on the same packed data the AVX kernels return what the generic ones
\* do: mulavxf(x, y) is mulgen(x, y) component for component, and
\* macavxf(a, x, y) leaves what macgen(a, x, y) leaves
C5_AvxAgreesWithGeneric ==
  /\ Applied({"mulavx2", "mulavx3"}) =>
       aavx[last.n] = ToAvx(mulgen2(inp.b[last.n], inp.c[last.n]))
  /\ Applied({"macavx"}) =>
       aavx[last.n] = ToAvx(macgen(inp.a[last.n], inp.b[last.n], inp.c[last.n]))

\* C5 witness: macavxf has run on data whose product has non-zero real and
\* imaginary parts in lanes of both 128-bit halves
C5_Witness ==
  /\ Applied({"macavx"})
  /\ \A k \in {0, 1, 6, 7} : aavx[last.n][k] # inp.a[last.n][k]
  /\ inp.a[last.n] # ZeroVec

\* C6: under the layout map vecc.v[k] = (vec.v[2k], vec.v[2k+1]) the std
\* kernels agree with the generic ones: mulstd(b, c) is mulgen(b, c) and
\* macstd(a, b, c) leaves what macgen(a, b, c) leaves, in every lane
C6_StdAgreesWithGeneric ==
  /\ Applied({"mulstd2", "mulstd3"}) =>
       ac[last.n] = ToStd(mulgen2(inp.b[last.n], inp.c[last.n]))
  /\ Applied({"macstd"}) =>
       ac[last.n] = ToStd(macgen(inp.a[last.n], inp.b[last.n], inp.c[last.n]))

\* C6 witness: macstd has changed both parts of a lane of a non-zero a
C6_Witness ==
  /\ Applied({"macstd"})
  /\ ac[last.n][1].re # ToStd(inp.a[last.n])[1].re
  /\ ac[last.n][1].im # ToStd(inp.a[last.n])[1].im
  /\ inp.a[last.n] # ZeroVec

\* C7: with a destination that is a separate object from b and c, a = mul(b, c)
\* and mul(a, b, c) leave the same a, for mulgen, mulstd and mulavxf: what one
\* form has left is what the other form leaves from the same start
C7_TwoAndThreeArgsAgree ==
  /\ Applied({"mulgen2"}) =>
       a[last.n] = mulgen3(inp.a[last.n], inp.b[last.n], inp.c[last.n])
  /\ Applied({"mulgen3"}) =>
       a[last.n] = mulgen2(inp.b[last.n], inp.c[last.n])
  /\ Applied({"mulstd2"}) =>
       ac[last.n] = mulstd3(ToStd(inp.a[last.n]), bc[last.n], cc[last.n])
  /\ Applied({"mulstd3"}) =>
       ac[last.n] = mulstd2(bc[last.n], cc[last.n])
  /\ Applied({"mulavx2", "mulavx3"}) =>
       /\ aavx[last.n] = mulavxf3(ToAvx(inp.a[last.n]), bavx[last.n], cavx[last.n])
       /\ aavx[last.n] = mulavxf2(bavx[last.n], cavx[last.n])

\* C7 witness: the 3-argument generic form has overwritten a non-zero a
C7_Witness ==
  /\ Applied({"mulgen3"})
  /\ inp.a[last.n] # ZeroVec
  /\ \A k \in Comps : a[last.n][k] # inp.a[last.n][k]

---------------------------------------------------------------------------
(* Properties of the program, checked under Spec and FairSpec *)

MulBenches == {"mulgen2", "mulgen3", "mulstd2", "mulstd3", "mulavx2", "mulavx3"}

MacBenches == {"macgen", "macstd", "macavx"}

MatmulBenches == {"matmulgen", "matmulstd", "matmulavx"}

\* C8: the flop figure of a benchmark is the work its expression does per
\* element: a mul benchmark makes one multiply (6 flops per complex lane), a
\* mac benchmark one multiply-accumulate (8 per lane), a MATMUL benchmark
\* nRow^2 multiplies and nRow^2*(nRow-1) multiply-accumulates, which is
\* 6*n^2*w + 8*n^2*(n-1)*w flops
C8_FlopFigureMatchesWork ==
  /\ \A n \in MulBenches :
       /\ work[n].mul = ran[n] /\ work[n].mac = 0
       /\ work[n].flops = 6 * WfC * ran[n]
  /\ \A n \in MacBenches :
       /\ work[n].mul = 0 /\ work[n].mac = ran[n]
       /\ work[n].flops = 8 * WfC * ran[n]
  /\ \A n \in MatmulBenches :
       /\ work[n].mul = nRow * nRow * ran[n]
       /\ work[n].mac = nRow * nRow * (nRow - 1) * ran[n]
       /\ work[n].flops = (6 * nRow * nRow * WfC
                           + 8 * nRow * nRow * (nRow - 1) * WfC) * ran[n]
  /\ \A k \in 1 .. Len(out) :
       (out[k].kind = "result"
        /\ out[k].bench \in MulBenches \cup MacBenches \cup MatmulBenches)
         => out[k].text = work[out[k].bench].flops

\* C8 witness: the program has finished, every benchmark of the three kinds
\* has done its work and printed its figure
C8_Witness ==
  /\ pc = "exit"
  /\ work["mulstd3"].flops = 6 * WfC * nIt * nElem
  /\ work["macavx"].flops = 8 * WfC * nIt * nElem
  /\ work["matmulgen"].mac = nRow * nRow * (nRow - 1) * nIt * nElem
  /\ \E k \in 1 .. Len(out) :
       out[k].bench = "matmulgen" /\ out[k].kind = "result"
       /\ out[k].text = work["matmulgen"].flops

\* the benchmarks main runs, in the order it runs them
RunOrder == << "mulgen2", "mulgen3", "macgen", "matmulgen",
               "mulstd2", "mulstd3", "macstd", "matmulstd",
               "mulavx2", "mulavx3", "macavx", "matmulavx" >>

\* line k of the output: the banner, then a title and a result per benchmark
ExpectedLine(k) ==
  IF k = 1 THEN [kind |-> "info", bench |-> "info"]
  ELSE [kind  |-> IF k % 2 = 0 THEN "title" ELSE "result",
        bench |-> RunOrder[k \div 2]]

\* C9: main runs bench_info and then exactly mulgen2, mulgen3, macgen,
\* matmulgen, mulstd2, mulstd3, macstd, matmulstd, mulavx2, mulavx3, macavx,
\* matmulavx in that order, each to completion (title, loop, result line)
\* before the next begins; addgen and the unrolled matmuls are never run
C9_MainRunsTwelveInOrder ==
  /\ Len(out) <= 1 + 2 * Len(RunOrder)
  /\ \A k \in 1 .. Len(out) :
       /\ out[k].kind = ExpectedLine(k).kind
       /\ out[k].bench = ExpectedLine(k).bench
  /\ \A k \in 1 .. Len(RunOrder) :
       \* not begun / in its loop / completed
       CASE Len(out) < 2 * k     -> ran[RunOrder[k]] = 0
         [] Len(out) = 2 * k     -> ran[RunOrder[k]] <= nIt * nElem
         [] Len(out) > 2 * k     -> ran[RunOrder[k]] = nIt * nElem
  /\ \A n \in {"addgen", "matmulunrollgen", "matmulunrollavx"} : ran[n] = 0
  /\ pc \in {"outer", "inner", "body", "report"} => Len(out) % 2 = 0
  /\ pc = "exit" => Len(out) = 1 + 2 * Len(RunOrder)

\* C9 witness: main has returned after the twenty-five lines
C9_Witness ==
  /\ pc = "exit"
  /\ Len(out) = 25
  /\ out[25].bench = "matmulavx" /\ out[25].kind = "result"
  /\ ran["mulgen2"] = nIt * nElem

\* C10: every benchmark executes its expression exactly nIt*nElem times, for
\* it in 0..nIt-1 and i in 0..nElem-1 and on elements inside the buffers, and
\* then returns; main reaches return EXIT_SUCCESS on every run
C10_AlwaysSucceeds ==
  /\ <>(pc = "exit" /\ status = << EXIT_SUCCESS >>)
  /\ [](pc = "body" =>
          /\ it \in 0 .. (nIt - 1) /\ i \in 0 .. (nElem - 1)
          /\ ran[CurBench] = it * nElem + i
          /\ \A k \in 1 .. Len(BenchCalls(CurBench, i)) :
               {BenchCalls(CurBench, i)[k].d, BenchCalls(CurBench, i)[k].x,
                BenchCalls(CurBench, i)[k].y} \subseteq BufIdx)
  /\ [](pc = "report" => ran[CurBench] = nIt * nElem)
  /\ [](pc = "exit" => \A k \in 1 .. Len(RunOrder) :
                          ran[RunOrder[k]] = nIt * nElem)
  /\ [](pc \in {"main", "outer", "inner", "body", "report", "exit"})
  /\ [](status # <<>> => pc = "exit")

\* C10 witness: main has returned EXIT_SUCCESS after the last benchmark ran
\* its nIt*nElem iterations
C10_Witness ==
  /\ pc = "exit"
  /\ status = << EXIT_SUCCESS >>
  /\ ran["matmulavx"] = nIt * nElem
  /\ ran["mulgen2"] = nIt * nElem

---------------------------------------------------------------------------
(* Properties of the buffers, the unrollers, the labels and timesMinusI *)

\* C11: the numeric buffers a, b, c, ac, bc, cc, aavx, bavx, cavx are
\* populated with data before the timing loops run: when the first timing
\* loop is entered none of the nine holds the zeros of its static
\* initialisation any more, and the source buffers, which the loops only
\* read, hold data in every timing loop
C11_PopulatedBeforeTimingLoops ==
  /\ (pc = "outer" /\ cur = 2 /\ it = 0) =>
       (a # ZeroBuf /\ ac # ZeroBufc /\ aavx # ZeroBufv)
  /\ pc \in {"outer", "inner", "body", "report"} =>
       /\ b # ZeroBuf /\ c # ZeroBuf
       /\ bc # ZeroBufc /\ cc # ZeroBufc
       /\ bavx # ZeroBufv /\ cavx # ZeroBufv

\* C12: loop1<n>::exec(func) invokes func(t) once for each t in 1..n-1 in
\* ascending order and never func(0), as the loop for (t = 1; t < nRow; ++t)
\* of MATMUL does; loop0<n>::exec(func) invokes func once for each index
\* 0..n-1 in ascending order; so the unrolled expression makes the calls of
\* MATMUL's loops
C12_Loop1SkipsZero ==
  Applied({"matmulunrollgen", "matmulunrollavx"}) =>
    /\ \A n \in 1 .. MaxUnroll :
         /\ loop1(n) = ForRange(1, n)
         /\ loop0(n) = ForRange(0, n)
    /\ Len(BenchCalls(last.name, last.n)) = Len(MATMULCalls(LastOs))
    /\ \A k \in 1 .. Len(BenchCalls(last.name, last.n)) :
         BenchCalls(last.name, last.n)[k].op = "mac"
           => BenchCalls(last.name, last.n)[k].x % nRow # 0

\* titles of the benchmarks labelled (3 args) and (2 args)
ThreeArgsTitles == {"generic a[i] = b[i]*c[i] (3 args)",
                    "std a[i] = b[i]*c[i] (3 args)",
                    "AVX a[i] = b[i]*c[i] (3 args)"}

TwoArgsTitles == {"generic a[i] = b[i]*c[i] (2 args)",
                  "std a[i] = b[i]*c[i] (2 args)",
                  "AVX a[i] = b[i]*c[i] (2 args)"}

\* C13: while a benchmark whose title line says (3 args) runs, its
\* expression calls the three-argument in-place multiply, mul(a[i], b[i],
\* c[i]); while one whose title line says (2 args) runs, its expression
\* calls the two-argument returning multiply, a[i] = mul(b[i], c[i])
C13_LabelsMatchForms ==
  pc = "body" =>
    /\ out[Len(out)].text \in ThreeArgsTitles =>
         \A k \in 1 .. Len(BenchCalls(CurBench, i)) :
           BenchCalls(CurBench, i)[k].op = "mul3"
    /\ out[Len(out)].text \in TwoArgsTitles =>
         \A k \in 1 .. Len(BenchCalls(CurBench, i)) :
           BenchCalls(CurBench, i)[k].op = "mul2"

\* every complex lane (re, im) of x replaced by (im, -re)
LaneTimesMinusI(x) ==
  [k \in Comps |-> IF k % 2 = 0 THEN x[k + 1] ELSE 0 - x[k - 1]]

Negated(x) == [k \in Comps |-> 0 - x[k]]

\* C14: timesMinusI1(x) = timesMinusI2(x) = mulgen(x, mi()), every lane
\* (re, im) becoming (im, -re); timesMinusI1 applied twice gives -x, three
\* times -(x times -i), four times x again
C14_TimesMinusIAgree ==
  pc = "tmi" =>
    /\ timesMinusI1(inp.b[last.n]) = timesMinusI2(inp.b[last.n])
    /\ timesMinusI1(inp.b[last.n]) = mulgen2(inp.b[last.n], mi)
    /\ timesMinusI2(inp.b[last.n]) = LaneTimesMinusI(inp.b[last.n])
    /\ it % 4 = 1 => a[last.n] = LaneTimesMinusI(inp.b[last.n])
    /\ it % 4 = 2 => a[last.n] = Negated(inp.b[last.n])
    /\ it % 4 = 3 => a[last.n] = Negated(LaneTimesMinusI(inp.b[last.n]))
    /\ it % 4 = 0 => a[last.n] = inp.b[last.n]

\* C14 witness: four applications have brought back a vector with a
\* non-zero real and imaginary part in lane 0, which two applications
\* had negated
C14_Witness ==
  /\ pc = "tmi" /\ it = 4
  /\ inp.b[last.n][0] # 0 /\ inp.b[last.n][1] # 0
  /\ inp.b[last.n][0] # inp.b[last.n][1]
  /\ a[last.n] = inp.b[last.n]
  /\ a[last.n] # Negated(inp.b[last.n])
  /\ a[last.n] # LaneTimesMinusI(inp.b[last.n])

\* destination entries inner iteration last.n of the applied benchmark may
\* change: entry i, or the nCoef entries of matrix i
FrameEntries ==
  IF last.name \in MatmulBenches \cup {"matmulunrollgen", "matmulunrollavx"}
  THEN LastOs .. (LastOs + nCoef - 1)
  ELSE {last.n}

\* C15: a benchmark step writes no source buffer (b, c, bc, cc, bavx, cavx);
\* inner iteration i of a mul/mac benchmark changes only destination entry i,
\* of a matmul benchmark only entries i*nCoef .. i*nCoef+nCoef-1; a benchmark
\* of one family leaves the destination buffers of the other two unchanged
C15_BenchmarkFrame ==
  pc = "applied" =>
    /\ b = inp.b /\ c = inp.c
    /\ bc = BufToStd(inp.b) /\ cc = BufToStd(inp.c)
    /\ bavx = BufToAvx(inp.b) /\ cavx = BufToAvx(inp.c)
    /\ BenchFam(last.name) # "gen" => a = inp.a
    /\ BenchFam(last.name) # "std" => ac = BufToStd(inp.a)
    /\ BenchFam(last.name) # "avx" => aavx = BufToAvx(inp.a)
    /\ \A j \in BufIdx \ FrameEntries :
         /\ a[j] = inp.a[j]
         /\ ac[j] = ToStd(inp.a[j])
         /\ aavx[j] = ToAvx(inp.a[j])

\* C15 witness: iteration 1 of matmulstd has changed every entry of matrix 1
\* of ac, whose other entries held data
C15_Witness ==
  /\ Applied({"matmulstd"}) /\ last.n = 1
  /\ inp.a # ZeroBuf
  /\ \A j \in FrameEntries : ac[j] # ToStd(inp.a[j])
  /\ \A j \in BufIdx \ FrameEntries : ac[j] = ToStd(inp.a[j]) /\ ac[j] # ZeroVecc

=============================================================================
